---- MODULE Spec2Model ----
(***************************************************************************)
(* A model of app.py, the retrieval-augmented-generation pipeline:         *)
(* PDF text extraction, corpus building, replace-all indexing in the       *)
(* persistent collection, endpoint discovery and answer generation.        *)
(*                                                                         *)
(* Python strings are modelled as sequences of symbols.  A symbol is one   *)
(* of the whitespace characters " " and "\n", or a chunk of text that      *)
(* neither starts nor ends with whitespace (a letter, a literal of the     *)
(* program such as the page placeholder, a file name).                     *)
(***************************************************************************)
EXTENDS Integers, Sequences, FiniteSets, Bags, TLC

VARIABLES
    pc,             \* the operation that completed last ("init": none yet)
    pdf,            \* the PDF handed to extract_text_from_pdf
    text_out,       \* what extract_text_from_pdf returned
    docs_dir,       \* the documents directory: does it exist, which files
    documents,      \* what process_documents returned
    collection,     \* the entries of the persistent Chroma collection
    next_uuid,      \* the number of uuid4 values handed out so far
    docs,           \* the argument of the latest store_documents call
    server,         \* what each candidate endpoint answers to a probe now
    json_error_is_request_exception,
                    \* the installed requests library: is the error raised
                    \* by response.json() a RequestException
    probes,         \* the URLs probed by the latest check_llama_server call
    endpoint,       \* what the latest check_llama_server call returned
    prev_endpoint,  \* the endpoint of the query_llama call before the latest
    request,        \* the generation request sent by the latest query_llama
    response,       \* what the backend did with that request
    answer,         \* the outcome of the latest query_llama call
    pipeline        \* the outcome of the latest rag_pipeline call

extractVars == <<pdf, text_out>>
corpusVars == <<docs_dir, documents>>
storeVars == <<collection, next_uuid, docs>>
queryVars == <<server, json_error_is_request_exception, probes, endpoint,
               prev_endpoint, request, response, answer, pipeline>>
vars == <<pc, extractVars, corpusVars, storeVars, queryVars>>

----------------------------------------------------------------------------
(* Bounds of the model.                                                    *)

MaxPages == 2
MaxPageLen == 2
MaxFiles == 2
MaxDocs == 2
MaxUuid == 6

SeqsUpTo(S, n) == UNION {[1..k -> S] : k \in 0..n}

----------------------------------------------------------------------------
(* Python's str methods, on sequences of symbols.                          *)

Whitespace == {" ", "\n"}

RECURSIVE lstrip(_)
lstrip(s) ==
    IF s # <<>> /\ Head(s) \in Whitespace THEN lstrip(Tail(s)) ELSE s

RECURSIVE rstrip(_)
rstrip(s) ==
    IF s # <<>> /\ s[Len(s)] \in Whitespace
    THEN rstrip(SubSeq(s, 1, Len(s) - 1))
    ELSE s

strip(s) == rstrip(lstrip(s))

\* text.replace("  ", " "): non-overlapping occurrences, left to right
RECURSIVE replace_double_spaces(_)
replace_double_spaces(s) ==
    IF Len(s) < 2 THEN s
    ELSE IF s[1] = " " /\ s[2] = " "
         THEN <<" ">> \o replace_double_spaces(SubSeq(s, 3, Len(s)))
         ELSE <<s[1]>> \o replace_double_spaces(Tail(s))

\* text.split("\n")
RECURSIVE split_lines(_)
split_lines(s) ==
    IF \A i \in 1..Len(s) : s[i] # "\n" THEN <<s>>
    ELSE LET i == CHOOSE j \in 1..Len(s) :
                      s[j] = "\n" /\ \A k \in 1..(j - 1) : s[k] # "\n"
         IN  <<SubSeq(s, 1, i - 1)>> \o split_lines(SubSeq(s, i + 1, Len(s)))

\* sep.join(parts)
RECURSIVE join(_, _)
join(sep, parts) ==
    IF parts = <<>> THEN <<>>
    ELSE IF Len(parts) = 1 THEN parts[1]
    ELSE parts[1] \o sep \o join(sep, Tail(parts))

\* sub in s
Contains(sub, s) ==
    \E i \in 0..(Len(s) - Len(sub)) : SubSeq(s, i + 1, i + Len(sub)) = sub

----------------------------------------------------------------------------
(* extract_text_from_pdf                                                   *)

PageChars == {" ", "\n", "a"}
PageTexts == SeqsUpTo(PageChars, MaxPageLen)

\* What page.extract_text does on a page: returns text, returns None, raises.
Pages == [kind : {"text"}, text : PageTexts]
           \cup [kind : {"none", "raise"}, text : {<<>>}]

\* What pdfplumber.open does on a file: raises, or gives the pages.
Pdfs == [opens : {FALSE}, pages : {<<>>}]
          \cup [opens : {TRUE}, pages : SeqsUpTo(Pages, MaxPages)]

NoPdf == [opens |-> FALSE, pages |-> <<>>]

Placeholder(page_num) == <<"[No text found on page ", ToString(page_num), "]">>

\* lines 25-26: the clean-up of one page's text
clean_page_text(text) ==
    LET lines == split_lines(replace_double_spaces(text))
    IN  join(<<"\n">>, [i \in 1..Len(lines) |-> strip(lines[i])])

\* page_block with the pages numbered from 0
page_block_zero_based(page, page_num) ==
    IF page.kind = "text" /\ page.text # <<>>
    THEN clean_page_text(page.text)
    ELSE Placeholder(page_num - 1)

\* lines 23-29: the body of the loop for one page that did not raise
page_block(page, page_num) ==
    IF page.kind = "text" /\ page.text # <<>>
    THEN clean_page_text(page.text)
    ELSE Placeholder(page_num)

\* lines 22-29: the loop; raised is set when a page's extract_text raises
RECURSIVE extract_pages(_, _, _)
extract_pages(pages, page_num, text_content) ==
    IF page_num > Len(pages)
    THEN [raised |-> FALSE, text_content |-> text_content]
    ELSE IF pages[page_num].kind = "raise"
         THEN [raised |-> TRUE, text_content |-> text_content]
         ELSE extract_pages(pages, page_num + 1,
                  Append(text_content, page_block(pages[page_num], page_num)))

extract_text_from_pdf(p) ==
    IF ~p.opens THEN <<>>
    ELSE LET r == extract_pages(p.pages, 1, <<>>)
         IN  IF r.raised THEN <<>> ELSE join(<<" ">>, r.text_content)

ExtractDefault == pdf = NoPdf /\ text_out = <<>>

Extract ==
    /\ pc = "init"
    /\ pc' = "extract_text_from_pdf"
    /\ text_out' = extract_text_from_pdf(pdf)
    /\ UNCHANGED <<pdf, corpusVars, storeVars, queryVars>>

----------------------------------------------------------------------------
(* process_documents                                                       *)

\* The names a file of the documents directory can have, and the ones
\* docs_dir.glob("*.pdf") selects.
DirNames == {"a.pdf", "b.pdf", "notes.txt"}
matches_pdf_glob(name) == name \in {"a.pdf", "b.pdf"}

\* The PDFs the files of the directory are drawn from.
DirPdfs ==
    { NoPdf,
      [opens |-> TRUE, pages |-> <<>>],
      [opens |-> TRUE, pages |-> <<[kind |-> "none", text |-> <<>>]>>],
      [opens |-> TRUE, pages |-> <<[kind |-> "text", text |-> <<" ", "\n">>]>>],
      [opens |-> TRUE, pages |-> <<[kind |-> "text", text |-> <<"a", " ">>]>>],
      [opens |-> TRUE, pages |-> <<[kind |-> "text", text |-> <<"a">>],
                                   [kind |-> "raise", text |-> <<>>]>>] }

DirFiles == [name : DirNames, pdf : DirPdfs]

\* The listings of a directory: its files in the order the glob yields them.
DirListings ==
    { l \in SeqsUpTo(DirFiles, MaxFiles) :
        \A i, j \in 1..Len(l) : i # j => l[i].name # l[j].name }

Dirs == [exists : {FALSE}, files : {<<>>}]
          \cup [exists : {TRUE}, files : DirListings]

\* lines 56-73
general_docs ==
    << [text |-> <<"The Apollo 11 mission landed humans on the moon for the first time on July 20, 1969.">>,
        source |-> "space_facts"],
       [text |-> <<"SpaceX's Falcon 9 is a reusable rocket designed to reduce the cost of space travel.">>,
        source |-> "space_facts"],
       [text |-> <<"The International Space Station orbits Earth at an altitude of about 400 kilometers.">>,
        source |-> "space_facts"],
       [text |-> <<"Mars Rover Perseverance searches for signs of ancient life on the Martian surface.">>,
        source |-> "space_facts"] >>

\* lines 41-43
glob_pdf_files(dir) ==
    IF dir.exists
    THEN SelectSeq(dir.files, LAMBDA f : matches_pdf_glob(f.name))
    ELSE <<>>

\* documents_of_file without the strip of line 49
documents_of_file_unstripped(f) ==
    LET text == extract_text_from_pdf(f.pdf)
    IN  IF text # <<>>
        THEN <<[text |-> text, source |-> f.name]>>
        ELSE <<>>

\* lines 48-53: what one PDF file adds to the documents
documents_of_file(f) ==
    LET text == extract_text_from_pdf(f.pdf)
    IN  IF strip(text) # <<>>
        THEN <<[text |-> text, source |-> f.name]>>
        ELSE <<>>

\* lines 46-53
RECURSIVE documents_of_files(_)
documents_of_files(pdf_files) ==
    IF pdf_files = <<>> THEN <<>>
    ELSE documents_of_file(Head(pdf_files)) \o documents_of_files(Tail(pdf_files))

process_documents(dir) ==
    documents_of_files(glob_pdf_files(dir)) \o general_docs

NoDir == [exists |-> FALSE, files |-> <<>>]

CorpusDefault == docs_dir = NoDir /\ documents = <<>>

ProcessDocuments ==
    /\ pc = "init"
    /\ pc' = "process_documents"
    /\ documents' = process_documents(docs_dir)
    /\ UNCHANGED <<docs_dir, extractVars, storeVars, queryVars>>

----------------------------------------------------------------------------
(* store_documents                                                         *)

DocTexts == {<<>>, <<" ">>, <<"a">>, <<" ", "a", "\n">>}
DocSources == {"a.pdf", "space_facts"}
Docs == [text : DocTexts, source : DocSources]
DocLists == SeqsUpTo(Docs, MaxDocs)

\* collection.get()["ids"]
collection_ids(c) == {e.id : e \in c}

\* collection.delete(ids=...)
collection_delete(c, ids) == {e \in c : e.id \notin ids}

\* collection.add(documents=..., ids=..., metadatas=...)
collection_add(c, documents_text, ids, metadatas) ==
    c \cup { [id |-> ids[i], document |-> documents_text[i],
              source |-> metadatas[i].source] : i \in 1..Len(documents_text) }

\* line 86: the i-th uuid4 of a call made after n values were handed out
uuid4(n, i) == n + i

\* line 90
valid_indices(documents_text) ==
    LET keep(i) == strip(documents_text[i]) # <<>>
        RECURSIVE from(_)
        from(i) == IF i > Len(documents_text) THEN <<>>
                   ELSE (IF keep(i) THEN <<i>> ELSE <<>>) \o from(i + 1)
    IN  from(1)

\* clear_collection that deletes nothing
clear_collection_skipped(c) == c

\* lines 80-82
clear_collection(c) ==
    LET existing_ids == collection_ids(c)
    IN  IF existing_ids # {} THEN collection_delete(c, existing_ids) ELSE c

\* lines 78-103: the collection after store_documents(d)
store_documents(c, n, d) ==
    LET cleared == clear_collection(c)
        documents_text == [i \in 1..Len(d) |-> d[i].text]
        documents_ids == [i \in 1..Len(d) |-> uuid4(n, i)]
        documents_metadata == [i \in 1..Len(d) |-> [source |-> d[i].source]]
        valid == valid_indices(documents_text)
        valid_docs == [k \in 1..Len(valid) |-> documents_text[valid[k]]]
        valid_ids == [k \in 1..Len(valid) |-> documents_ids[valid[k]]]
        valid_metadata == [k \in 1..Len(valid) |-> documents_metadata[valid[k]]]
    IN  IF valid_docs # <<>>
        THEN collection_add(cleared, valid_docs, valid_ids, valid_metadata)
        ELSE cleared

\* What an earlier run of the program can have left in the persistent
\* collection, with the number of uuid4 values that took.
PriorCollections ==
    { [entries |-> {}, uuids |-> 0],
      [entries |-> {[id |-> 1, document |-> <<"a">>, source |-> "a.pdf"]},
       uuids |-> 1],
      [entries |-> {[id |-> 1, document |-> <<"old">>, source |-> "old.pdf"],
                    [id |-> 2, document |-> <<"a">>, source |-> "space_facts"]},
       uuids |-> 2] }

StoreDefault == collection = {} /\ next_uuid = 0 /\ docs = <<>>

StoreDocuments(d) ==
    /\ next_uuid + Len(d) <= MaxUuid
    /\ pc' = "store_documents"
    /\ docs' = d
    /\ collection' = store_documents(collection, next_uuid, d)
    /\ next_uuid' = next_uuid + Len(d)
    /\ UNCHANGED <<extractVars, corpusVars, queryVars>>

----------------------------------------------------------------------------
(* retrieve_documents                                                      *)

\* The orders in which collection.query can rank the entries of c: the
\* n_results nearest entries, or all of them when there are fewer.
Rankings(c, n_results) ==
    LET k == IF Cardinality(c) < n_results THEN Cardinality(c) ELSE n_results
    IN  { r \in [1..k -> c] : \A i, j \in 1..k : i # j => r[i] # r[j] }

\* collection.query(query_texts=[query], n_results=..., include=...): a field
\* that include does not name is None in the result.
collection_query(ranking, include) ==
    [ids |-> <<[i \in 1..Len(ranking) |-> ranking[i].id]>>,
     documents |->
        IF "documents" \in include
        THEN [is_none |-> FALSE,
              rows |-> <<[i \in 1..Len(ranking) |-> ranking[i].document]>>]
        ELSE [is_none |-> TRUE, rows |-> <<>>],
     metadatas |->
        IF "metadatas" \in include
        THEN [is_none |-> FALSE,
              rows |-> <<[i \in 1..Len(ranking) |->
                             [source |-> ranking[i].source]]>>]
        ELSE [is_none |-> TRUE, rows |-> <<>>]]

\* lines 106-114; results['documents'][0] raises TypeError on None
retrieve_documents(ranking) ==
    LET results == collection_query(ranking, {"metadatas"})
    IN  IF results.documents.is_none \/ results.metadatas.is_none
        THEN [raised |-> TRUE, exception |-> "TypeError",
              documents |-> <<>>, sources |-> <<>>]
        ELSE [raised |-> FALSE, exception |-> "",
              documents |-> results.documents.rows[1],
              sources |-> [i \in 1..Len(results.metadatas.rows[1]) |->
                              results.metadatas.rows[1][i].source]]

----------------------------------------------------------------------------
(* check_llama_server                                                      *)

Native ==
    <<"http://localhost:8000", "/", "c", "o", "m", "p", "l", "e", "t", "i", "o", "n">>
OpenAI ==
    <<"http://localhost:8000", "/", "v", "1",
      "/", "c", "o", "m", "p", "l", "e", "t", "i", "o", "n", "s">>

\* lines 119-122
endpoints == <<Native, OpenAI>>

None == <<>>

\* What a probe of a candidate ends in: status 200, another status, or a
\* requests.exceptions.RequestException (connection refused, timeout).
ProbeAnswers == {"200", "non200", "exception"}
Servers == [{Native, OpenAI} -> ProbeAnswers]

\* lines 124-136: the loop from the i-th candidate on
RECURSIVE probe_from(_, _, _)
probe_from(srv, i, probed) ==
    IF i > Len(endpoints) THEN [url |-> None, probes |-> probed]
    ELSE LET url == endpoints[i]
         IN  IF srv[url] = "200"
             THEN [url |-> url, probes |-> Append(probed, url)]
             ELSE probe_from(srv, i + 1, Append(probed, url))

\* check_llama_server that gives up at the first RequestException
check_llama_server_stops(srv) ==
    IF srv[endpoints[1]] = "exception"
    THEN [url |-> None, probes |-> <<endpoints[1]>>]
    ELSE probe_from(srv, 1, <<>>)

\* check_llama_server that keeps the endpoint it bound before
check_llama_server_cached(srv) ==
    IF endpoint # None
    THEN [url |-> endpoint, probes |-> <<>>]
    ELSE probe_from(srv, 1, <<>>)

\* lines 116-138
check_llama_server(srv) == probe_from(srv, 1, <<>>)

----------------------------------------------------------------------------
(* query_llama                                                             *)

\* s.endswith(suffix)
endswith(s, suffix) ==
    /\ Len(suffix) <= Len(s)
    /\ SubSeq(s, Len(s) - Len(suffix) + 1, Len(s)) = suffix

completion_suffix == <<"/", "c", "o", "m", "p", "l", "e", "t", "i", "o", "n">>

\* is_native as a substring test
is_native_substring(url) == Contains(completion_suffix, url)

\* lines 159, 174
is_native(url) == endswith(url, completion_suffix)

\* line 145
no_server_message ==
    <<"Error: Could not connect to llama.cpp server.", " ",
      "Please verify the server is running and the endpoint is correct.", " ",
      "Try starting the server with: ./server --port 8000">>

\* line 180
unexpected_format_message ==
    <<"Error: Unexpected response format from llama.cpp server">>

\* line 182
querying_error(e) == <<"Error querying llama.cpp server:", " ", e>>

\* line 184
parsing_error(e) == <<"Error parsing server response:", " ", e>>

\* lines 147-148
build_prompt(prompt, context, sources) ==
    LET sources_text ==
            <<"\n", "Sources:", " ">>
                \o join(<<",", " ">>, [i \in 1..Len(sources) |-> <<sources[i]>>])
    IN  <<"Context:", " ">> \o context
            \o <<"\n", "\n", "Question:", " ">> \o prompt
            \o <<"\n", "\n",
                 "Based on the provided context, please answer the question:">>
            \o sources_text \o <<"\n", "Answer:">>

\* lines 150-156
openai_payload(full_prompt) ==
    [prompt |-> full_prompt, max_tokens |-> 500, temperature |-> "0.7",
     top_p |-> "0.95", stop |-> <<"\n\n">>]

\* native_payload that keeps the field name of the default payload
native_payload_max_tokens(full_prompt) == openai_payload(full_prompt)

\* lines 160-166
native_payload(full_prompt) ==
    [prompt |-> full_prompt, n_predict |-> 500, temperature |-> "0.7",
     top_p |-> "0.95", stop |-> <<"\n\n">>]

\* lines 150-166
build_payload(url, full_prompt) ==
    IF is_native(url) THEN native_payload(full_prompt)
    ELSE openai_payload(full_prompt)

\* JSON values of a response body, as far as query_llama looks into them.
Absent == [present |-> FALSE, is_str |-> FALSE, text |-> <<>>]
Null == [present |-> TRUE, is_str |-> FALSE, text |-> <<>>]
Str(t) == [present |-> TRUE, is_str |-> TRUE, text |-> t]

ContentTexts == {<<>>, <<"a">>, <<" ", "a", "\n">>}
ChoiceTexts == {<<"b">>, <<"\n", "b", " ">>}

ContentValues == {Absent, Null} \cup {Str(t) : t \in ContentTexts}
ChoiceElems ==
    {[is_object |-> FALSE, text |-> Absent]}
        \cup {[is_object |-> TRUE, text |-> v] :
                 v \in {Absent, Null} \cup {Str(t) : t \in ChoiceTexts}}
NoChoices == [present |-> FALSE, is_list |-> FALSE, items |-> <<>>]
ChoicesValues ==
    {NoChoices,
     [present |-> TRUE, is_list |-> FALSE, items |-> <<>>],
     [present |-> TRUE, is_list |-> TRUE, items |-> <<>>]}
        \cup {[present |-> TRUE, is_list |-> TRUE, items |-> <<e>>] :
                 e \in ChoiceElems}

NotJson == [json |-> FALSE, type |-> "", content |-> Absent, choices |-> NoChoices]
Bodies ==
    {NotJson}
        \cup [json : {TRUE}, type : {"array", "number", "string"},
              content : {Absent}, choices : {NoChoices}]
        \cup [json : {TRUE}, type : {"object"},
              content : ContentValues, choices : {NoChoices}]
        \cup [json : {TRUE}, type : {"object"},
              content : {Absent}, choices : ChoicesValues]
        \cup {[json |-> TRUE, type |-> "object",
               content |-> Str(<<" ", "a", "\n">>),
               choices |-> [present |-> TRUE, is_list |-> TRUE,
                            items |-> <<[is_object |-> TRUE,
                                         text |-> Str(<<"\n", "b", " ">>)]>>]]}

\* What requests.post of the generation request ends in: a
\* RequestException, or a response with a status and a body.
NoResponse == [kind |-> "none", status |-> "", body |-> NotJson]
Responses ==
    {[kind |-> "exception", status |-> "", body |-> NotJson],
     [kind |-> "http", status |-> "4xx5xx", body |-> NotJson]}
        \cup [kind : {"http"}, status : {"2xx"}, body : Bodies]
        \cup [kind : {"http"}, status : {"3xx"},
              body : {NotJson, [json |-> TRUE, type |-> "object",
                                content |-> Str(<<"a">>), choices |-> NoChoices]}]

Returned(v) == [raised |-> FALSE, value |-> v]
Raised(e) == [raised |-> TRUE, value |-> <<e>>]

\* lines 174-180 on the native endpoint; result.get and .strip() raise
\* AttributeError on a value that has no such method
parse_native(result) ==
    IF result.type # "object" THEN Raised("AttributeError")
    ELSE IF ~result.content.present THEN Returned(strip(<<>>))
    ELSE IF ~result.content.is_str THEN Raised("AttributeError")
    ELSE Returned(strip(result.content.text))

\* lines 176-180 on the OpenAI-compatible endpoint
parse_openai(result) ==
    IF result.type = "number" THEN Raised("TypeError")
    ELSE IF result.type # "object" THEN Returned(unexpected_format_message)
    ELSE IF ~result.choices.present THEN Returned(unexpected_format_message)
    ELSE IF ~result.choices.is_list THEN Raised("TypeError")
    ELSE IF Len(result.choices.items) = 0
         THEN Returned(unexpected_format_message)
    ELSE LET first == result.choices.items[1]
         IN  IF ~first.is_object THEN Raised("TypeError")
             ELSE IF ~first.text.present THEN Raised("KeyError")
             ELSE IF ~first.text.is_str THEN Raised("AttributeError")
             ELSE Returned(strip(first.text.text))

\* lines 173-180
parse_result(url, result) ==
    IF is_native(url) THEN parse_native(result) ELSE parse_openai(result)

\* lines 168-184; raise_for_status raises HTTPError on a 4xx or 5xx status
send_request(url, resp, json_error_caught_first) ==
    IF resp.kind = "exception"
    THEN Returned(querying_error("ConnectionError"))
    ELSE IF resp.status = "4xx5xx"
    THEN Returned(querying_error("HTTPError"))
    ELSE IF ~resp.body.json
    THEN (IF json_error_caught_first
          THEN Returned(querying_error("JSONDecodeError"))
          ELSE Returned(parsing_error("JSONDecodeError")))
    ELSE parse_result(url, resp.body)

NoRequest == [sent |-> FALSE, url |-> None, payload |-> [prompt |-> <<>>]]

\* lines 141-184
query_llama(prompt, context, sources, srv, resp, lib) ==
    LET found == check_llama_server(srv)
    IN  IF found.url = None
        THEN [probes |-> found.probes, endpoint |-> None,
              request |-> NoRequest, response |-> NoResponse,
              answer |-> Returned(no_server_message)]
        ELSE [probes |-> found.probes, endpoint |-> found.url,
              request |-> [sent |-> TRUE, url |-> found.url,
                           payload |-> build_payload(found.url,
                                           build_prompt(prompt, context, sources))],
              response |-> resp,
              answer |-> send_request(found.url, resp, lib)]

\* lines 187-193; an exception of retrieve_documents leaves rag_pipeline
rag_pipeline(query, ranking, srv, resp, lib) ==
    LET retrieved == retrieve_documents(ranking)
    IN  IF retrieved.raised
        THEN [called |-> FALSE, answer |-> Raised(retrieved.exception)]
        ELSE [called |-> TRUE,
              answer |-> query_llama(query, join(<<" ">>, retrieved.documents),
                                     retrieved.sources, srv, resp, lib).answer]

\* The arguments query_llama is called with.
QueryInputs ==
    { [prompt |-> <<"q">>, context |-> <<"ctx">>,
       sources |-> <<"a.pdf", "space_facts">>] }

Queries == {<<"When did Apollo 11 land?">>}

AllDown == [u \in {Native, OpenAI} |-> "exception"]

QueryDefault ==
    /\ server = AllDown
    /\ json_error_is_request_exception = TRUE
    /\ probes = <<>>
    /\ endpoint = None
    /\ prev_endpoint = None
    /\ request = NoRequest
    /\ response = NoResponse
    /\ answer = Returned(<<>>)
    /\ pipeline = Returned(<<>>)

\* line 199: the check made at startup, while the candidates answer as srv
CheckLlamaServer(srv) ==
    LET found == check_llama_server(srv)
    IN  /\ pc = "init"
        /\ pc' = "check_llama_server"
        /\ server' = srv
        /\ probes' = found.probes
        /\ endpoint' = found.url
        /\ prev_endpoint' = endpoint
        /\ UNCHANGED <<json_error_is_request_exception, request, response,
                       answer, pipeline>>
        /\ UNCHANGED <<extractVars, corpusVars, storeVars>>

\* A query_llama call made while the candidates answer probes as srv and
\* the backend treats the generation request as resp.
QueryLlama(in, srv, resp) ==
    LET out == query_llama(in.prompt, in.context, in.sources, srv, resp,
                           json_error_is_request_exception)
    IN  /\ pc' = "query_llama"
        /\ server' = srv
        /\ probes' = out.probes
        /\ endpoint' = out.endpoint
        /\ prev_endpoint' = endpoint
        /\ request' = out.request
        /\ response' = out.response
        /\ answer' = out.answer
        /\ UNCHANGED <<json_error_is_request_exception, pipeline>>
        /\ UNCHANGED <<extractVars, corpusVars, storeVars>>

\* A rag_pipeline call, the index ranking its entries as ranking.
RagPipeline(query, ranking) ==
    LET retrieved == retrieve_documents(ranking)
    IN  /\ pc' = "rag_pipeline"
        /\ IF retrieved.raised
           THEN /\ pipeline' = rag_pipeline(query, ranking, server, NoResponse,
                                   json_error_is_request_exception).answer
                /\ UNCHANGED <<server, probes, endpoint, prev_endpoint,
                               request, response, answer>>
           ELSE \E srv \in Servers, resp \in Responses :
                  LET out == query_llama(query,
                                 join(<<" ">>, retrieved.documents),
                                 retrieved.sources, srv, resp,
                                 json_error_is_request_exception)
                  IN  /\ pipeline' = rag_pipeline(query, ranking, srv, resp,
                                         json_error_is_request_exception).answer
                      /\ server' = srv
                      /\ probes' = out.probes
                      /\ endpoint' = out.endpoint
                      /\ prev_endpoint' = endpoint
                      /\ request' = out.request
                      /\ response' = out.response
                      /\ answer' = out.answer
        /\ UNCHANGED json_error_is_request_exception
        /\ UNCHANGED <<extractVars, corpusVars, storeVars>>

----------------------------------------------------------------------------
(* The specifications: one per component, the other components at rest.    *)

InitExtract ==
    /\ pc = "init"
    /\ pdf \in Pdfs
    /\ text_out = <<>>
    /\ CorpusDefault /\ StoreDefault /\ QueryDefault

SpecExtract == InitExtract /\ [][Extract]_vars

InitCorpus ==
    /\ pc = "init"
    /\ docs_dir \in Dirs
    /\ documents = <<>>
    /\ ExtractDefault /\ StoreDefault /\ QueryDefault

SpecCorpus == InitCorpus /\ [][ProcessDocuments]_vars

InitStore ==
    /\ pc = "init"
    /\ \E prior \in PriorCollections :
          collection = prior.entries /\ next_uuid = prior.uuids
    /\ docs = <<>>
    /\ ExtractDefault /\ CorpusDefault /\ QueryDefault

NextStore == \E d \in DocLists : StoreDocuments(d)

SpecStore == InitStore /\ [][NextStore]_vars

\* The index as lines 208-209 leave it when there is no PDF to read.
InitQuery ==
    /\ pc = "init"
    /\ collection = store_documents({}, 0, general_docs)
    /\ next_uuid = Len(general_docs)
    /\ docs = general_docs
    /\ server = AllDown
    /\ json_error_is_request_exception \in BOOLEAN
    /\ probes = <<>>
    /\ endpoint = None
    /\ prev_endpoint = None
    /\ request = NoRequest
    /\ response = NoResponse
    /\ answer = Returned(<<>>)
    /\ pipeline = Returned(<<>>)
    /\ ExtractDefault /\ CorpusDefault

NextQuery ==
    \/ \E srv \in Servers : CheckLlamaServer(srv)
    \/ \E in \in QueryInputs, srv \in Servers, resp \in Responses :
          QueryLlama(in, srv, resp)
    \/ \E query \in Queries, ranking \in Rankings(collection, 3) :
          RagPipeline(query, ranking)

SpecQuery == InitQuery /\ [][NextQuery]_vars

----------------------------------------------------------------------------
(* Properties.                                                             *)

Reachable200 == {u \in {Native, OpenAI} : server[u] = "200"}

\* The response carries an answer in the field the native endpoint uses.
NativeAnswerIn(resp) ==
    /\ resp.kind = "http" /\ resp.status # "4xx5xx"
    /\ resp.body.json /\ resp.body.type = "object"
    /\ resp.body.content.present /\ resp.body.content.is_str

\* The response carries an answer where the OpenAI-compatible endpoint
\* puts it.
OpenAIAnswerIn(resp) ==
    /\ resp.kind = "http" /\ resp.status # "4xx5xx"
    /\ resp.body.json /\ resp.body.type = "object"
    /\ resp.body.choices.present /\ resp.body.choices.is_list
    /\ Len(resp.body.choices.items) > 0
    /\ resp.body.choices.items[1].is_object
    /\ resp.body.choices.items[1].text.present
    /\ resp.body.choices.items[1].text.is_str

PairsOf(c) == {[text |-> e.document, source |-> e.source] : e \in c}

\* After a store_documents call the index holds, for every (text, source)
\* pair, as many entries as the call's list has documents with that pair
\* when the trimmed text is not empty, and none otherwise, under ids that
\* are all different.
IndexIsLastCall ==
    pc = "store_documents" =>
        /\ \A p \in PairsOf(collection) \cup {docs[i] : i \in DOMAIN docs} :
              Cardinality({e \in collection :
                              e.document = p.text /\ e.source = p.source})
                = IF strip(p.text) = <<>> THEN 0
                  ELSE Cardinality({i \in DOMAIN docs : docs[i] = p})
        /\ \A e1, e2 \in collection : e1.id = e2.id => e1 = e2

\* A store_documents call with the list of the call before it leaves the
\* set of (text, source) pairs as it was.
ReingestSamePairs ==
    (pc = "store_documents" /\ pc' = "store_documents" /\ docs' = docs)
      => PairsOf(collection') = PairsOf(collection)

\* C1: after any sequence of store_documents calls, also on an index an
\* earlier run populated, the index holds exactly one entry per document
\* of the latest call whose trimmed text is not empty, with its text and
\* source; nothing of an earlier call survives, and storing the same list
\* twice leaves the same (text, source) pairs as storing it once.
C1_ReplaceAll == [][IndexIsLastCall' /\ ReingestSamePairs]_vars

C1_Witness ==
    /\ pc = "store_documents"
    /\ next_uuid > Len(docs)
    /\ Len(docs) = 2
    /\ strip(docs[1].text) = <<>>
    /\ Cardinality(collection) = 1

\* C2: query_llama never raises: whatever the generation request ends in,
\* the call returns a string.
C2_NeverRaises == pc = "query_llama" => ~answer.raised

\* C3: while the native endpoint is down and the OpenAI-compatible one is
\* up, every query_llama call binds the OpenAI-compatible endpoint, sends
\* the token budget as max_tokens and reads the answer from
\* choices[0].text.
C3_FallbackShape ==
    (pc = "query_llama" /\ server[Native] # "200" /\ server[OpenAI] = "200")
      => /\ endpoint = OpenAI
         /\ request.sent
         /\ request.url = OpenAI
         /\ "max_tokens" \in DOMAIN request.payload
         /\ "n_predict" \notin DOMAIN request.payload
         /\ OpenAIAnswerIn(response) =>
               answer = Returned(strip(response.body.choices.items[1].text.text))

C3_Witness ==
    /\ pc = "query_llama"
    /\ server[Native] = "exception"
    /\ server[OpenAI] = "200"
    /\ OpenAIAnswerIn(response)
    /\ NativeAnswerIn(response)
    /\ answer = Returned(<<"b">>)

\* C4: check_llama_server probes the native endpoint, then the
\* OpenAI-compatible one, and returns the first that answers 200; a
\* RequestException or another status makes it go on to the next
\* candidate; it returns None exactly when no candidate answers 200.
C4_FirstThatAnswers ==
    pc \in {"check_llama_server", "query_llama"} =>
        /\ probes # <<>>
        /\ Len(probes) <= Len(endpoints)
        /\ \A i \in 1..Len(probes) : probes[i] = endpoints[i]
        /\ \A i \in 1..(Len(probes) - 1) : server[probes[i]] # "200"
        /\ IF Reachable200 # {}
           THEN /\ endpoint = probes[Len(probes)]
                /\ server[endpoint] = "200"
           ELSE /\ endpoint = None
                /\ Len(probes) = Len(endpoints)

C4_Witness ==
    /\ pc = "check_llama_server"
    /\ server[Native] = "exception"
    /\ server[OpenAI] = "200"
    /\ probes = <<Native, OpenAI>>
    /\ endpoint = OpenAI

\* C5: every query_llama call runs the discovery afresh: the endpoint it
\* uses is one that answers this call's probes with 200, whatever the
\* call before bound; an endpoint bound before that is down now is not
\* used, and a backend that was unreachable before and answers now is.
C5_FreshDiscovery ==
    pc = "query_llama" =>
        /\ probes # <<>> /\ probes[1] = Native
        /\ (endpoint # None) = (Reachable200 # {})
        /\ endpoint # None => endpoint \in Reachable200
        /\ request.sent = (endpoint # None)
        /\ request.sent => request.url = endpoint
        /\ (prev_endpoint # None /\ prev_endpoint \notin Reachable200)
              => ~(request.sent /\ request.url = prev_endpoint)

C5_Witness ==
    /\ pc = "query_llama"
    /\ prev_endpoint = Native
    /\ server[Native] = "exception"
    /\ server[OpenAI] = "200"
    /\ request.sent
    /\ request.url = OpenAI

StartInstruction == <<"Try starting the server with: ./server --port 8000">>

\* C6: when no candidate endpoint is reachable, query_llama returns a
\* string that tells how to start the server and sends no generation
\* request, and rag_pipeline completes without raising and returns that
\* string.
C6_NoServerPipeline ==
    /\ (pc = "query_llama" /\ Reachable200 = {})
          => /\ ~answer.raised
             /\ Contains(StartInstruction, answer.value)
             /\ ~request.sent
    /\ (pc = "rag_pipeline" /\ Reachable200 = {})
          => /\ ~pipeline.raised
             /\ Contains(StartInstruction, pipeline.value)

\* C7: the string query_llama returns names the failure class: a
\* RequestException or a status that is not 2xx gives the message of the
\* connection class, a body that is not JSON the message of the parse
\* class.
C7_NamesFailureClass ==
    (pc = "query_llama" /\ request.sent) =>
        /\ (response.kind = "exception" \/ response.status # "2xx")
              => /\ ~answer.raised
                 /\ Contains(<<"Error querying llama.cpp server:">>, answer.value)
        /\ (response.kind = "http" /\ response.status = "2xx"
              /\ ~response.body.json)
              => /\ ~answer.raised
                 /\ Contains(<<"Error parsing server response:">>, answer.value)
                 /\ ~Contains(<<"Error querying llama.cpp server:">>, answer.value)

\* C8: a generation request goes to the endpoint the same call bound, and
\* its body and the parsing of the response fit that endpoint: n_predict
\* and the content field for the native endpoint, max_tokens and
\* choices[0].text for the OpenAI-compatible one, a budget of 500 in both.
C8_ShapeFitsEndpoint ==
    (pc = "query_llama" /\ request.sent) =>
        /\ request.url = endpoint
        /\ endpoint \in {Native, OpenAI}
        /\ endpoint = Native =>
              /\ "n_predict" \in DOMAIN request.payload
              /\ request.payload.n_predict = 500
              /\ "max_tokens" \notin DOMAIN request.payload
              /\ NativeAnswerIn(response) =>
                    answer = Returned(strip(response.body.content.text))
        /\ endpoint = OpenAI =>
              /\ "max_tokens" \in DOMAIN request.payload
              /\ request.payload.max_tokens = 500
              /\ "n_predict" \notin DOMAIN request.payload
              /\ OpenAIAnswerIn(response) =>
                    answer = Returned(strip(response.body.choices.items[1].text.text))

C8_Witness ==
    /\ pc = "query_llama"
    /\ endpoint = Native
    /\ request.sent
    /\ NativeAnswerIn(response)
    /\ OpenAIAnswerIn(response)
    /\ answer = Returned(<<"a">>)

\* The PDF files of the directory whose extracted text is not blank, in
\* the order of the listing.
FilesWithText ==
    IF docs_dir.exists
    THEN SelectSeq(docs_dir.files,
             LAMBDA f : /\ f.name \in {"a.pdf", "b.pdf"}
                        /\ strip(extract_text_from_pdf(f.pdf)) # <<>>)
    ELSE <<>>

\* C9: process_documents returns one document per PDF file whose extracted
\* text is not blank, followed by the 4 built-in documents of source
\* 'space_facts'; so it returns at least those 4, also when the directory
\* is absent or holds no PDF.
C9_BuiltinsAlways ==
    pc = "process_documents" =>
        LET n == Len(FilesWithText)
        IN  /\ Len(documents) = n + 4
            /\ \A i \in 1..n :
                  /\ documents[i].source = FilesWithText[i].name
                  /\ documents[i].text = extract_text_from_pdf(FilesWithText[i].pdf)
            /\ \A i \in 1..4 :
                  /\ documents[n + i] = general_docs[i]
                  /\ documents[n + i].source = "space_facts"

C9_Witness ==
    /\ pc = "process_documents"
    /\ docs_dir.exists
    /\ Len(docs_dir.files) = 2
    /\ \A i \in 1..2 : docs_dir.files[i].name \in {"a.pdf", "b.pdf"}
    /\ extract_text_from_pdf(docs_dir.files[1].pdf) # <<>>
    /\ strip(extract_text_from_pdf(docs_dir.files[1].pdf)) = <<>>
    /\ Len(documents) = 5

NoTextPage(page) == page.kind = "none" \/ (page.kind = "text" /\ page.text = <<>>)
RaisingPage(page) == page.kind = "raise"
NormalPage(page) == page.kind = "text" /\ strip(page.text) # <<>>

\* C10 as stated: whenever one page of a PDF fails (it yields no text, or
\* its extraction raises) and another page is normal, the result holds the
\* placeholder of the failed page and the text of the normal page.
C10_AnyPageFailureTolerated ==
    (pc = "extract_text_from_pdf" /\ pdf.opens) =>
        \A bad, good \in 1..Len(pdf.pages) :
            ((NoTextPage(pdf.pages[bad]) \/ RaisingPage(pdf.pages[bad]))
                /\ NormalPage(pdf.pages[good]))
              => /\ text_out # <<>>
                 /\ Contains(Placeholder(bad), text_out)
                 /\ Contains(clean_page_text(pdf.pages[good].text), text_out)

\* C10, amended: on a PDF none of whose page extractions raises, every
\* page that yields no text is in the result as its placeholder
\* '[No text found on page <n>]' and every normal page as its cleaned-up
\* text, so a page without text never discards the text of the others; a
\* page whose extraction raises, like a file that does not open, makes
\* the whole result the empty string.
C10_NoTextPageTolerated ==
    pc = "extract_text_from_pdf" =>
        IF pdf.opens /\ \A n \in 1..Len(pdf.pages) : ~RaisingPage(pdf.pages[n])
        THEN \A n \in 1..Len(pdf.pages) :
                /\ NoTextPage(pdf.pages[n]) => Contains(Placeholder(n), text_out)
                /\ NormalPage(pdf.pages[n]) =>
                      Contains(clean_page_text(pdf.pages[n].text), text_out)
        ELSE text_out = <<>>

C10_Witness ==
    /\ pc = "extract_text_from_pdf"
    /\ pdf.opens
    /\ Len(pdf.pages) = 2
    /\ NoTextPage(pdf.pages[2])
    /\ NormalPage(pdf.pages[1])
    /\ Contains(<<"[No text found on page ", "2", "]">>, text_out)
    /\ Contains(<<"a">>, text_out)

====
